---- MODULE Spec2Model ----
(***************************************************************************)
(* A model of spa-prerenderer: the option validator (lib/options), the     *)
(* local server wrapper (lib/server) and the Prerenderer orchestrator      *)
(* (index.js).                                                             *)
(*                                                                         *)
(* JavaScript values are tagged records; strings are sequences of tokens   *)
(* (one token per character, except the literal "index.html"), so that     *)
(* startsWith, endsWith, slice, split and concatenation are computed.      *)
(***************************************************************************)
EXTENDS Integers, Sequences, FiniteSets, TLC

\* ------------------------------------------------------------------ bounds
\* How many times the caller may call init() on one instance.
MaxInits == 2
\* How many times the caller may call startBrowser() itself before init().
MaxCallerLaunches == 1

\* --------------------------------------------------------------- constants
\* portfinder.getPort(3000): the first port tried.
BasePort == 3000

\* ------------------------------------------------------------ JS values
Undef == [t |-> "undefined"]
Null == [t |-> "null"]
Bool(b) == [t |-> "boolean", b |-> b]
Str(s) == [t |-> "string", s |-> s]
Arr(a) == [t |-> "array", a |-> a]

\* typeof v === 'boolean'
IsBoolean(v) == v.t = "boolean"
\* Array.isArray(v)
IsArray(v) == v.t = "array"
\* path.isAbsolute(p) on POSIX: a non-empty string that starts with '/'.
IsAbsolute(v) == v.t = "string" /\ Len(v.s) > 0 /\ v.s[1] = "/"

\* A default of the constructor's destructuring: used when the option is
\* not supplied (undefined).
Default(v, d) == IF v = Undef THEN d ELSE v

\* The constructor's parameter list: the named options with their defaults.
\* Any other key of the argument (reportPageErrors) is not read.
Destructure(arg) ==
  [staticDir |-> Default(arg.staticDir, Null),
   routes |-> Default(arg.routes, Arr(<< <<"/">> >>)),
   outputDir |-> Default(arg.outputDir, Str(<<".">>)),
   waitForElement |-> Default(arg.waitForElement, Null),
   useHttps |-> Default(arg.useHttps, Bool(TRUE)),
   supressOutput |-> Default(arg.supressOutput, Bool(FALSE)),
   stopOnPageError |-> Default(arg.stopOnPageError, Bool(FALSE))]

\* ------------------------------------------------------------ Options
NoError == [type |-> "none", message |-> ""]
JsError(m) == [type |-> "Error", message |-> m]
TypeError(m) == [type |-> "TypeError", message |-> m]

\* validate, were routes checked before staticDir.
validate_RoutesFirst(o) ==
  IF ~IsArray(o.routes)
    THEN TypeError("routes must be an array.")
  ELSE IF o.staticDir = Null
    THEN JsError("staticDir must be explicitly set.")
  ELSE IF ~IsAbsolute(o.staticDir)
    THEN JsError("staticDir must be an absolute path.")
  ELSE IF ~IsBoolean(o.useHttps)
    THEN TypeError("useHttps must be a boolean value.")
  ELSE IF ~IsBoolean(o.supressOutput)
    THEN TypeError("supressOutput must be a boolean value.")
  ELSE IF ~IsBoolean(o.stopOnPageError)
    THEN TypeError("stopOnPageError must be a boolean value.")
  ELSE NoError

\* validate, were the absolute-path rule left out.
validate_NoAbsoluteRule(o) ==
  IF o.staticDir = Null
    THEN JsError("staticDir must be explicitly set.")
  ELSE IF ~IsArray(o.routes)
    THEN TypeError("routes must be an array.")
  ELSE IF ~IsBoolean(o.useHttps)
    THEN TypeError("useHttps must be a boolean value.")
  ELSE IF ~IsBoolean(o.supressOutput)
    THEN TypeError("supressOutput must be a boolean value.")
  ELSE IF ~IsBoolean(o.stopOnPageError)
    THEN TypeError("stopOnPageError must be a boolean value.")
  ELSE NoError

\* validate, were supressOutput checked before useHttps.
validate_SupressFirst(o) ==
  IF o.staticDir = Null
    THEN JsError("staticDir must be explicitly set.")
  ELSE IF ~IsAbsolute(o.staticDir)
    THEN JsError("staticDir must be an absolute path.")
  ELSE IF ~IsArray(o.routes)
    THEN TypeError("routes must be an array.")
  ELSE IF ~IsBoolean(o.supressOutput)
    THEN TypeError("supressOutput must be a boolean value.")
  ELSE IF ~IsBoolean(o.useHttps)
    THEN TypeError("useHttps must be a boolean value.")
  ELSE IF ~IsBoolean(o.stopOnPageError)
    THEN TypeError("stopOnPageError must be a boolean value.")
  ELSE NoError

\* Options.validate: the error it throws, or NoError when it returns true.
validate(o) ==
  IF o.staticDir = Null
    THEN JsError("staticDir must be explicitly set.")
  ELSE IF ~IsAbsolute(o.staticDir)
    THEN JsError("staticDir must be an absolute path.")
  ELSE IF ~IsArray(o.routes)
    THEN TypeError("routes must be an array.")
  ELSE IF ~IsBoolean(o.useHttps)
    THEN TypeError("useHttps must be a boolean value.")
  ELSE IF ~IsBoolean(o.supressOutput)
    THEN TypeError("supressOutput must be a boolean value.")
  ELSE IF ~IsBoolean(o.stopOnPageError)
    THEN TypeError("stopOnPageError must be a boolean value.")
  ELSE NoError


\* ------------------------------------------------------------ strings
Slash == "/"
IndexHtml == "index.html"

\* s.startsWith('/')
StartsWithSlash(s) == Len(s) > 0 /\ s[1] = Slash
\* s.endsWith('/')
EndsWithSlash(s) == Len(s) > 0 /\ s[Len(s)] = Slash
\* s.slice(0, -1)
DropLast(s) == SubSeq(s, 1, Len(s) - 1)

\* ------------------------------------------------------------ state
VARIABLES
  phase,      \* "new", "threw" (the constructor threw) or "constructed"
  arg,        \* the options object handed to the constructor
  thrown,     \* what the constructor threw
  self,       \* this.staticDir .. this.stopOnPageError
  port,       \* this.port (0: never resolved)
  server,     \* the listener of this.server: "none", "pending", "listening", "failed", "closed"
  browsers,   \* every browser puppeteer.launch has started, by launch order
  browser,    \* this.browser: an index into browsers (0: undefined)
  initPc,     \* where the running init() is
  initErr,    \* the rejection reason of init()
  inits,      \* how many times init() has been called
  launches,   \* how many times the caller called startBrowser() itself
  tasks,      \* the route tasks of the current init(), by position in routes
  fs,         \* the filesystem: resolved path -> entry
  fs0,        \* the filesystem as it was before the program ran
  log,        \* the console lines written
  crashed     \* the process died of an uncaught exception

vars == <<phase, arg, thrown, self, port, server, browsers, browser, initPc,
          initErr, inits, launches, tasks, fs, fs0, log, crashed>>

Unset ==
  [staticDir |-> Undef, routes |-> Undef, outputDir |-> Undef,
   waitForElement |-> Undef, useHttps |-> Undef, supressOutput |-> Undef,
   stopOnPageError |-> Undef]

NoArg ==
  [staticDir |-> Undef, routes |-> Undef, outputDir |-> Undef,
   waitForElement |-> Undef, useHttps |-> Undef, supressOutput |-> Undef,
   stopOnPageError |-> Undef, reportPageErrors |-> Undef]

\* ------------------------------------------------------------ filesystem
\* filePath.split('/'): the components between the slashes, empty ones kept.
RECURSIVE SplitFrom(_, _, _, _)
SplitFrom(s, i, cur, acc) ==
  IF i > Len(s) THEN Append(acc, cur)
  ELSE IF s[i] = Slash THEN SplitFrom(s, i + 1, <<>>, Append(acc, cur))
  ELSE SplitFrom(s, i + 1, Append(cur, s[i]), acc)

Split(s) == SplitFrom(s, 1, <<>>, <<>>)

\* pathComponents.join('/')
RECURSIVE Join(_)
Join(cs) ==
  IF Len(cs) = 0 THEN <<>>
  ELSE IF Len(cs) = 1 THEN cs[1]
  ELSE cs[1] \o <<Slash>> \o Join(Tail(cs))

\* How the operating system resolves a path string: empty components
\* (doubled or trailing slashes) and "." name no directory of their own.
\* Paths are resolved from one root, the working directory.
Resolve(s) == SelectSeq(Split(s), LAMBDA c : c # <<>> /\ c # <<".">>)

Dir == [kind |-> "dir"]
Other == [kind |-> "other"]
File(data) == [kind |-> "file", data |-> data]

Prefixes(r) == {SubSeq(r, 1, n) : n \in 0..Len(r)}

\* fs.existsSync(p)
existsSync(f, p) ==
  /\ Resolve(p) \in DOMAIN f
  /\ EndsWithSlash(p) => f[Resolve(p)].kind = "dir"

\* fs.lstatSync(p).isFile()
isFile(f, p) == f[Resolve(p)].kind = "file"

FsOk(f) == [fs |-> f, err |-> "none"]
FsThrow(f, e) == [fs |-> f, err |-> e]

\* fs.mkdirSync(p, {recursive: true})
mkdirSync(f, p) ==
  LET r == Resolve(p) IN
  IF \E q \in Prefixes(r) : q \in DOMAIN f /\ f[q].kind # "dir"
    THEN FsThrow(f, "ENOTDIR")
    ELSE FsOk([q \in DOMAIN f \cup Prefixes(r) |->
                 IF q \in DOMAIN f THEN f[q] ELSE Dir])

\* fs.unlinkSync(p): unlink(2) does not remove a directory.
unlinkSync(f, p) ==
  LET r == Resolve(p) IN
  IF f[r].kind = "dir" THEN FsThrow(f, "EISDIR")
  ELSE FsOk([q \in DOMAIN f \ {r} |-> f[q]])

\* fs.writeFileSync(p, data)
writeFileSync(f, p, data) ==
  LET r == Resolve(p) IN
  IF r = <<>> THEN FsThrow(f, "EISDIR")
  ELSE IF DropLast(r) \notin DOMAIN f THEN FsThrow(f, "ENOENT")
  ELSE IF f[DropLast(r)].kind # "dir" THEN FsThrow(f, "ENOTDIR")
  ELSE IF r \in DOMAIN f /\ f[r].kind = "dir" THEN FsThrow(f, "EISDIR")
  ELSE FsOk([q \in DOMAIN f \cup {r} |-> IF q = r THEN File(data) ELSE f[q]])

\* Prerenderer.saveFile(fileContent, filePath): the filesystem it leaves and
\* the error it throws ("none" when it returns).
saveFile(f, fileContent, filePath) ==
  LET dirPath == Join(DropLast(Split(filePath)))
      made == IF ~existsSync(f, dirPath) THEN mkdirSync(f, dirPath) ELSE FsOk(f)
  IN
  IF made.err # "none" THEN made
  ELSE LET removed == IF existsSync(made.fs, filePath) /\ ~isFile(made.fs, filePath)
                        THEN unlinkSync(made.fs, filePath)
                        ELSE FsOk(made.fs)
       IN IF removed.err # "none" THEN removed
          ELSE writeFileSync(removed.fs, filePath, fileContent)

\* ------------------------------------------------------------ inputs
AbsDir == Str(<<Slash, "site">>)
RelDir == Str(<<".", Slash>>)
NotABoolean == Str(<<"notABoolean">>)
NotAnArray == Str(<<Slash, "not-an-array">>)
Selector == Str(<<"#dynamic">>)

\* What a file left by an earlier run holds.
OldContent == [route |-> <<"old">>, rendered |-> FALSE]

\* The output tree before the run: nothing; an earlier run's file; a
\* directory where the file is to go; a symbolic link there.
InitialFs ==
  { (<<>> :> Dir),
    (<<>> :> Dir) @@ (<< <<"out">> >> :> Dir)
                  @@ (<< <<"out">>, <<IndexHtml>> >> :> File(OldContent)),
    (<<>> :> Dir) @@ (<< <<"out">> >> :> Dir)
                  @@ (<< <<"out">>, <<IndexHtml>> >> :> Dir),
    (<<>> :> Dir) @@ (<< <<"out">> >> :> Dir)
                  @@ (<< <<"out">>, <<IndexHtml>> >> :> Other) }

RouteLists ==
  { <<>>, << <<Slash>> >>, << <<Slash>>, <<"a">> >>, << <<"a">>, <<Slash, "a">> >> }

\* The options objects construction alone is run on: every combination of
\* the values below.
AllArgs ==
  [staticDir : {Undef, Null, RelDir, Str(<<"site">>), AbsDir},
   routes : {Undef, NotAnArray, Arr(<<>>), Arr(<< <<"a">> >>)},
   outputDir : {Undef, Str(<<"out", Slash>>)},
   waitForElement : {Undef, Selector},
   useHttps : {Undef, Bool(TRUE), Bool(FALSE), NotABoolean},
   supressOutput : {Undef, Bool(TRUE), Bool(FALSE), NotABoolean},
   stopOnPageError : {Undef, Bool(TRUE), Bool(FALSE), NotABoolean},
   reportPageErrors : {Undef, NotABoolean}]

\* The routes and output directories the target paths are computed for:
\* with and without leading, trailing and doubled slashes.
PathRoutes ==
  { <<Slash>>, <<"a">>, <<Slash, "a">>, <<Slash, "a", Slash>>, <<Slash, Slash, "a">>,
    <<"a", Slash, "b">>, <<>> }

PathDirs ==
  { Undef, Str(<<"out">>), Str(<<"out", Slash>>), Str(<<"out", Slash, Slash>>),
    Str(<<"out", Slash, "sub">>) }

\* new Prerenderer({staticDir: <absolute>, outputDir: 'out'})
BaseArg == [NoArg EXCEPT !.staticDir = AbsDir, !.outputDir = Str(<<"out">>)]

\* The options objects a whole pass is run on: the routes, the selector and
\* the page-error flag in every combination; the output options in every
\* combination; and options that fail validation.
RunArgs ==
  {[BaseArg EXCEPT !.routes = r, !.waitForElement = w, !.stopOnPageError = s] :
     r \in {Undef} \cup {Arr(l) : l \in RouteLists \ {<< <<Slash>> >>}},
     w \in {Undef, Selector},
     s \in {Undef, Bool(TRUE)}}
  \cup
  {[BaseArg EXCEPT !.outputDir = d, !.useHttps = h, !.supressOutput = q] :
     d \in {Str(<<"out">>), Str(<<"out", Slash>>)},
     h \in {Undef, Bool(FALSE)},
     q \in {Undef, Bool(TRUE)}}
  \cup
  {[BaseArg EXCEPT !.staticDir = d] : d \in {Undef, RelDir}}
  \cup
  {[BaseArg EXCEPT !.routes = NotAnArray],
   [BaseArg EXCEPT !.useHttps = NotABoolean],
   [BaseArg EXCEPT !.supressOutput = NotABoolean],
   [BaseArg EXCEPT !.stopOnPageError = NotABoolean]}

\* The options objects the target paths are computed for: up to two routes
\* and an output directory, in every combination.
PathArgs ==
  {[BaseArg EXCEPT !.routes = Arr(l), !.outputDir = d, !.useHttps = h] :
     l \in {<<>>} \cup {<<r>> : r \in PathRoutes}
                  \cup {<<r, q>> : r \in PathRoutes, q \in PathRoutes},
     d \in PathDirs,
     h \in {Undef, Bool(FALSE)}}

\* ------------------------------------------------------------ construction
Init ==
  /\ phase = "new"
  /\ arg = NoArg
  /\ thrown = NoError
  /\ self = Unset
  /\ port = 0
  /\ server = "none"
  /\ browsers = <<>>
  /\ browser = 0
  /\ initPc = "idle"
  /\ initErr = "none"
  /\ inits = 0
  /\ launches = 0
  /\ tasks = <<>>
  /\ fs0 \in InitialFs
  /\ fs = fs0
  /\ log = {}
  /\ crashed = FALSE

\* Construct, were the options validated after the server is started.
Construct_LateValidate(a) ==
  /\ phase = "new"
  /\ arg' = a
  /\ port' = BasePort
  /\ server' = "pending"
  /\ LET o == Destructure(a) IN
     IF validate(o) # NoError
       THEN /\ phase' = "threw"
            /\ thrown' = validate(o)
            /\ UNCHANGED self
       ELSE /\ phase' = "constructed"
            /\ self' = o
            /\ UNCHANGED thrown
  /\ UNCHANGED <<browsers, browser, initPc, initErr, inits, launches, tasks,
                 fs, fs0, log, crashed>>

\* new Prerenderer(a): validate, store the options, resolve the port, create
\* the Server and call its init(), whose promise is dropped. Server.init()
\* calls listen(), which completes (or fails) later.
Construct(a) ==
  /\ phase = "new"
  /\ arg' = a
  /\ LET o == Destructure(a) IN
     IF validate(o) # NoError
       THEN /\ phase' = "threw"
            /\ thrown' = validate(o)
            /\ UNCHANGED <<self, port, server>>
       ELSE /\ phase' = "constructed"
            /\ self' = o
            /\ port' = BasePort
            /\ server' = "pending"
            /\ UNCHANGED thrown
  /\ UNCHANGED <<browsers, browser, initPc, initErr, inits, launches, tasks,
                 fs, fs0, log, crashed>>

\* ------------------------------------------------------------ Server
\* The listen() callback of Server.init(): the socket is listening (the
\* promise it resolves was dropped by the constructor).
Listen ==
  /\ ~crashed
  /\ server = "pending"
  /\ server' = "listening"
  /\ UNCHANGED <<phase, arg, thrown, self, port, browsers, browser, initPc,
                 initErr, inits, launches, tasks, fs, fs0, log, crashed>>

\* listen() fails (the port was taken meanwhile): the server emits 'error',
\* nothing listens for it, and the process ends on the uncaught exception.
BindError ==
  /\ ~crashed
  /\ server = "pending"
  /\ server' = "failed"
  /\ crashed' = TRUE
  /\ UNCHANGED <<phase, arg, thrown, self, port, browsers, browser, initPc,
                 initErr, inits, launches, tasks, fs, fs0, log>>

\* ------------------------------------------------------------ Prerenderer
Settled(t) == t.pc \in {"fulfilled", "rejected"}

\* The caller calls startBrowser() and awaits it: a browser is launched and
\* this.browser is set to it.
StartBrowser ==
  /\ ~crashed
  /\ phase = "constructed"
  /\ initPc = "idle"
  /\ launches < MaxCallerLaunches
  /\ launches' = launches + 1
  /\ browsers' = Append(browsers, "running")
  /\ browser' = Len(browsers) + 1
  /\ UNCHANGED <<phase, arg, thrown, self, port, server, initPc, initErr,
                 inits, tasks, fs, fs0, log, crashed>>

\* The caller calls init(), once the previous pass and its tasks are over:
\* init() calls startBrowser(), which starts the launch.
InitCall ==
  /\ ~crashed
  /\ phase = "constructed"
  /\ initPc \in {"idle", "returned", "rejected"}
  /\ \A i \in DOMAIN tasks : Settled(tasks[i])
  /\ inits < MaxInits
  /\ inits' = inits + 1
  /\ initPc' = "launch"
  /\ initErr' = "none"
  /\ tasks' = <<>>
  /\ browsers' = Append(browsers, "launching")
  /\ UNCHANGED <<phase, arg, thrown, self, port, server, browser, launches,
                 fs, fs0, log, crashed>>

\* NormalizeRoute, were the route used as it is configured.
NormalizeRoute_AsGiven(route) == route

\* route.startsWith('/') ? route : `/${route}`
NormalizeRoute(route) == IF StartsWithSlash(route) THEN route ELSE <<Slash>> \o route

\* this.outputDir.endsWith('/') ? this.outputDir.slice(0, -1) : this.outputDir
TargetBase(outputDir) == IF EndsWithSlash(outputDir) THEN DropLast(outputDir) ELSE outputDir

\* Target, were the slash before index.html left out.
Target_NoSlash(outputDir, route) == TargetBase(outputDir) \o route \o <<IndexHtml>>

\* Target, were the route left out of the path.
Target_Flat(outputDir, route) == TargetBase(outputDir) \o <<Slash, IndexHtml>>

\* `${targetBase}${route}/index.html`
Target(outputDir, route) == TargetBase(outputDir) \o route \o <<Slash, IndexHtml>>

\* `http${s}://localhost:${this.port}${route}`
Url(route) ==
  [scheme |-> IF self.useHttps = Bool(TRUE) THEN "https" ELSE "http",
   host |-> "localhost",
   port |-> port,
   path |-> route]

\* No URL is built before browser.newPage() resolves.
NoUrl == [scheme |-> "none", host |-> "none", port |-> 0, path |-> <<>>]

\* A route task as the map callback starts it: it runs up to the first
\* await, browser.newPage() in getMarkup.
NewTask(route) ==
  [route |-> NormalizeRoute(route),
   target |-> Target(self.outputDir.s, NormalizeRoute(route)),
   url |-> NoUrl,
   pc |-> "newPage",
   dom |-> "none",
   errored |-> FALSE,
   content |-> OldContent,
   err |-> "none"]

Line(l, i) == [line |-> l, task |-> i]

\* The progress lines, written unless output is suppressed.
Progress(l, is) == IF self.supressOutput = Bool(FALSE) THEN {Line(l, i) : i \in is} ELSE {}

\* Launched, were startBrowser() to close the browser whose handle it replaces.
Launched_ClosesPrevious ==
  /\ ~crashed
  /\ initPc = "launch"
  /\ browsers' = [b \in DOMAIN browsers |->
                    IF b = Len(browsers) THEN "running"
                    ELSE IF b = browser THEN "closed"
                    ELSE browsers[b]]
  /\ browser' = Len(browsers)
  /\ tasks' = [i \in 1..Len(self.routes.a) |-> NewTask(self.routes.a[i])]
  /\ log' = log \cup Progress("Prerendering", 1..Len(self.routes.a))
  /\ initPc' = "join"
  /\ UNCHANGED <<phase, arg, thrown, self, port, server, initErr, inits,
                 launches, fs, fs0, crashed>>

\* startBrowser() of init() resolves: this.browser is set, and init() starts
\* one task per route and awaits them all.
Launched ==
  /\ ~crashed
  /\ initPc = "launch"
  /\ browsers' = [browsers EXCEPT ![Len(browsers)] = "running"]
  /\ browser' = Len(browsers)
  /\ tasks' = [i \in 1..Len(self.routes.a) |-> NewTask(self.routes.a[i])]
  /\ log' = log \cup Progress("Prerendering", 1..Len(self.routes.a))
  /\ initPc' = "join"
  /\ UNCHANGED <<phase, arg, thrown, self, port, server, initErr, inits,
                 launches, fs, fs0, crashed>>

\* Reject, were the tasks joined with Promise.allSettled: a failed task
\* does not reject init().
Reject_AllSettled(i, e) ==
  /\ tasks' = [tasks EXCEPT ![i].pc = "rejected", ![i].err = e]
  /\ UNCHANGED <<initPc, initErr>>

\* A task throws: its promise is rejected, and Promise.all rejects init()
\* with the first rejection.
Reject(i, e) ==
  /\ tasks' = [tasks EXCEPT ![i].pc = "rejected", ![i].err = e]
  /\ IF initPc = "join"
       THEN initPc' = "rejected" /\ initErr' = e
       ELSE UNCHANGED <<initPc, initErr>>

\* browser.newPage() resolves: the two error listeners are attached and
\* page.goto(url) is called.
NewPage(i) ==
  /\ ~crashed
  /\ i \in DOMAIN tasks
  /\ tasks[i].pc = "newPage"
  /\ tasks' = [tasks EXCEPT ![i].pc = "goto", ![i].url = Url(tasks[i].route)]
  /\ UNCHANGED <<phase, arg, thrown, self, port, server, browsers, browser,
                 initPc, initErr, inits, launches, fs, fs0, log, crashed>>

\* Goto, were the selector wait skipped.
Goto_NoWait(i) ==
  /\ ~crashed
  /\ i \in DOMAIN tasks
  /\ tasks[i].pc = "goto"
  /\ IF server = "listening"
       THEN /\ \E d \in {"static", "stuck"} :
                 tasks' = [tasks EXCEPT ![i].dom = d, ![i].pc = "content"]
            /\ UNCHANGED <<initPc, initErr>>
       ELSE Reject(i, "ERR_CONNECTION_REFUSED")
  /\ UNCHANGED <<phase, arg, thrown, self, port, server, browsers, browser,
                 inits, launches, fs, fs0, log, crashed>>

\* page.goto(url) settles: the page is loaded if the server is listening
\* (its script may yet render the awaited element, or never will), and the
\* connection is refused if it is not.
Goto(i) ==
  /\ ~crashed
  /\ i \in DOMAIN tasks
  /\ tasks[i].pc = "goto"
  /\ IF server = "listening"
       THEN /\ \E d \in {"static", "stuck"} :
                 tasks' = [tasks EXCEPT
                   ![i].dom = d,
                   ![i].pc = IF self.waitForElement # Null THEN "waitSel" ELSE "content"]
            /\ UNCHANGED <<initPc, initErr>>
       ELSE Reject(i, "ERR_CONNECTION_REFUSED")
  /\ UNCHANGED <<phase, arg, thrown, self, port, server, browsers, browser,
                 inits, launches, fs, fs0, log, crashed>>

\* The page's script renders the awaited element.
Render(i) ==
  /\ ~crashed
  /\ i \in DOMAIN tasks
  /\ tasks[i].pc \in {"waitSel", "content"}
  /\ tasks[i].dom = "static"
  /\ tasks' = [tasks EXCEPT ![i].dom = "dynamic"]
  /\ UNCHANGED <<phase, arg, thrown, self, port, server, browsers, browser,
                 initPc, initErr, inits, launches, fs, fs0, log, crashed>>

\* page.waitForSelector resolves: the element is in the DOM.
SelectorFound(i) ==
  /\ ~crashed
  /\ i \in DOMAIN tasks
  /\ tasks[i].pc = "waitSel"
  /\ tasks[i].dom = "dynamic"
  /\ tasks' = [tasks EXCEPT ![i].pc = "content"]
  /\ UNCHANGED <<phase, arg, thrown, self, port, server, browsers, browser,
                 initPc, initErr, inits, launches, fs, fs0, log, crashed>>

\* page.waitForSelector times out: the element is not in the DOM.
SelectorTimeout(i) ==
  /\ ~crashed
  /\ i \in DOMAIN tasks
  /\ tasks[i].pc = "waitSel"
  /\ tasks[i].dom # "dynamic"
  /\ Reject(i, "TimeoutError")
  /\ UNCHANGED <<phase, arg, thrown, self, port, server, browsers, browser,
                 inits, launches, fs, fs0, log, crashed>>

\* page.content(): the markup of the page as it is now.
Markup(t) == [route |-> t.route, rendered |-> t.dom = "dynamic"]

\* Capture, were the write to interleave with an earlier write of the same
\* file: the file ends up holding part of each.
Capture_Mixed(i) ==
  /\ ~crashed
  /\ i \in DOMAIN tasks
  /\ tasks[i].pc = "content"
  /\ LET saved == saveFile(fs, Markup(tasks[i]), tasks[i].target)
         file == Resolve(tasks[i].target)
         mixed == IF file \in DOMAIN fs /\ fs[file].kind = "file"
                    THEN [Markup(tasks[i]) EXCEPT !.rendered = fs[file].data.rendered]
                    ELSE Markup(tasks[i])
     IN
     /\ IF saved.err = "none"
          THEN /\ fs' = [saved.fs EXCEPT ![file] = File(mixed)]
               /\ tasks' = [tasks EXCEPT ![i].pc = "fulfilled",
                                         ![i].content = Markup(tasks[i])]
               /\ log' = log \cup Progress("Prerendered", {i}) \cup Progress("Saved", {i})
               /\ UNCHANGED <<initPc, initErr>>
          ELSE /\ fs' = saved.fs
               /\ Reject(i, saved.err)
               /\ log' = log \cup Progress("Prerendered", {i})
  /\ UNCHANGED <<phase, arg, thrown, self, port, server, browsers, browser,
                 inits, launches, fs0, crashed>>

\* page.content() resolves and the task runs to its end: the markup is
\* saved to the target.
Capture(i) ==
  /\ ~crashed
  /\ i \in DOMAIN tasks
  /\ tasks[i].pc = "content"
  /\ LET saved == saveFile(fs, Markup(tasks[i]), tasks[i].target) IN
     /\ fs' = saved.fs
     /\ IF saved.err = "none"
          THEN /\ tasks' = [tasks EXCEPT ![i].pc = "fulfilled",
                                         ![i].content = Markup(tasks[i])]
               /\ log' = log \cup Progress("Prerendered", {i}) \cup Progress("Saved", {i})
               /\ UNCHANGED <<initPc, initErr>>
          ELSE /\ Reject(i, saved.err)
               /\ log' = log \cup Progress("Prerendered", {i})
  /\ UNCHANGED <<phase, arg, thrown, self, port, server, browsers, browser,
                 inits, launches, fs0, crashed>>

\* PageError, were the listener to reject the route's task with the error.
PageError_Rejects(i, event) ==
  /\ ~crashed
  /\ i \in DOMAIN tasks
  /\ tasks[i].pc \in {"waitSel", "content"}
  /\ ~tasks[i].errored
  /\ tasks' = [tasks EXCEPT ![i].errored = TRUE, ![i].pc = "rejected", ![i].err = event]
  /\ IF initPc = "join"
       THEN initPc' = "rejected" /\ initErr' = event
       ELSE UNCHANGED <<initPc, initErr>>
  /\ UNCHANGED <<phase, arg, thrown, self, port, server, browsers, browser,
                 inits, launches, fs, fs0, log, crashed>>

\* The page emits 'error' or 'pageerror'. The listener throws when
\* stopOnPageError is true: the throw leaves through the emitter, not
\* through getMarkup, and either ends the process or is dropped. Otherwise
\* the listener writes a line.
PageError(i, event) ==
  /\ ~crashed
  /\ i \in DOMAIN tasks
  /\ tasks[i].pc \in {"waitSel", "content"}
  /\ ~tasks[i].errored
  /\ tasks' = [tasks EXCEPT ![i].errored = TRUE]
  /\ IF self.stopOnPageError = Bool(TRUE)
       THEN crashed' \in BOOLEAN /\ UNCHANGED log
       ELSE log' = log \cup {Line(event, i)} /\ UNCHANGED crashed
  /\ UNCHANGED <<phase, arg, thrown, self, port, server, browsers, browser,
                 initPc, initErr, inits, launches, fs, fs0>>

\* Joined, were the join to resolve with the first task to succeed.
Joined_Any ==
  /\ ~crashed
  /\ initPc = "join"
  /\ \E i \in DOMAIN tasks : tasks[i].pc = "fulfilled"
  /\ initPc' = "closeBrowser"
  /\ UNCHANGED <<phase, arg, thrown, self, port, server, browsers, browser,
                 initErr, inits, launches, tasks, fs, fs0, log, crashed>>

\* Promise.all resolves, every task having succeeded: init() calls
\* this.browser.close().
Joined ==
  /\ ~crashed
  /\ initPc = "join"
  /\ \A i \in DOMAIN tasks : tasks[i].pc = "fulfilled"
  /\ initPc' = "closeBrowser"
  /\ UNCHANGED <<phase, arg, thrown, self, port, server, browsers, browser,
                 initErr, inits, launches, tasks, fs, fs0, log, crashed>>

\* BrowserClosed, were init() to leave the server running.
BrowserClosed_ServerKept ==
  /\ ~crashed
  /\ initPc = "closeBrowser"
  /\ browsers' = [browsers EXCEPT ![browser] = "closed"]
  /\ initPc' = "destroy"
  /\ UNCHANGED <<phase, arg, thrown, self, port, server, browser, initErr, inits,
                 launches, tasks, fs, fs0, log, crashed>>

\* browser.close() resolves; init() calls server.destroy(), which closes
\* the listener.
BrowserClosed ==
  /\ ~crashed
  /\ initPc = "closeBrowser"
  /\ browsers' = [browsers EXCEPT ![browser] = "closed"]
  /\ server' = "closed"
  /\ initPc' = "destroy"
  /\ UNCHANGED <<phase, arg, thrown, self, port, browser, initErr, inits,
                 launches, tasks, fs, fs0, log, crashed>>

\* server.destroy() resolves: init() returns true.
Returned ==
  /\ ~crashed
  /\ initPc = "destroy"
  /\ initPc' = "returned"
  /\ UNCHANGED <<phase, arg, thrown, self, port, server, browsers, browser,
                 initErr, inits, launches, tasks, fs, fs0, log, crashed>>

\* ------------------------------------------------------------ specifications
Next ==
  \/ \E a \in RunArgs : Construct(a)
  \/ Listen
  \/ BindError
  \/ StartBrowser
  \/ InitCall
  \/ Launched
  \/ \E i \in DOMAIN tasks : NewPage(i)
  \/ \E i \in DOMAIN tasks : Goto(i)
  \/ \E i \in DOMAIN tasks : Render(i)
  \/ \E i \in DOMAIN tasks : SelectorFound(i)
  \/ \E i \in DOMAIN tasks : SelectorTimeout(i)
  \/ \E i \in DOMAIN tasks : Capture(i)
  \/ \E i \in DOMAIN tasks : \E event \in {"Error", "Page error"} : PageError(i, event)
  \/ Joined
  \/ BrowserClosed
  \/ Returned

Spec == Init /\ [][Next]_vars

\* The positions a route task can have.
TaskIds == UNION {DOMAIN l : l \in RouteLists}

\* The event loop runs a timer that is due: the timeout of a selector wait
\* fires if the wait stays unanswered. Nothing obliges the caller to call,
\* the page to render or to raise an error, or the bind to succeed.
FairSpec == Init /\ [][Next]_vars /\ \A i \in TaskIds : WF_vars(SelectorTimeout(i))

\* A pass up to the point where every route's task has its target and its
\* URL, on the routes and output directories of PathArgs.
PathNext ==
  \/ \E a \in PathArgs : Construct(a)
  \/ Listen
  \/ InitCall
  \/ Launched
  \/ \E i \in TaskIds : NewPage(i)

PathSpec == Init /\ [][PathNext]_vars

\* Construction alone, on every options object, and the server start it
\* leaves behind.
ConstructNext ==
  \/ \E a \in AllArgs : Construct(a)
  \/ Listen
  \/ BindError

ConstructSpec == Init /\ [][ConstructNext]_vars

\* ------------------------------------------------------------ claims
InFlight(t) == ~Settled(t)
Running(b) == browsers[b] = "running"

\* C1: for a valid configuration the constructor does not throw, and the
\* server is listening whenever the caller's first startBrowser() or init()
\* is invoked.
C1_ListeningWhenInvoked ==
  /\ [](phase # "new" /\ validate(Destructure(arg)) = NoError => phase = "constructed")
  /\ [][(inits = 0 /\ (inits' # inits \/ launches' # launches))
          => server = "listening"]_vars

\* C2: whenever init() has completed, by returning or by being rejected
\* because a task failed, the listener is closed and no launched browser is
\* still running.
C2_TornDownOnCompletion ==
  initPc \in {"returned", "rejected"}
    => /\ server = "closed"
       /\ \A b \in DOMAIN browsers : ~Running(b)

\* C3: a step that closes a browser or stops the server is taken only when
\* no route task of the running init() is in flight.
C3_TeardownAfterSettle ==
  [][(\/ server' = "closed" /\ server # "closed"
      \/ \E b \in DOMAIN browsers : browsers'[b] = "closed" /\ browsers[b] # "closed")
       => \A i \in DOMAIN tasks : Settled(tasks[i])]_vars

C3_Witness ==
  /\ initPc = "destroy"
  /\ Len(tasks) = 2
  /\ server = "closed"
  /\ browsers[browser] = "closed"

\* C4: once a route task has failed, init() is rejected with the failure of
\* a failed task (the only one, when one task failed), and from then on no
\* step closes a browser or stops the server.
C4_FailureSkipsTeardown ==
  /\ []((\E i \in DOMAIN tasks : tasks[i].pc = "rejected")
          => /\ initPc = "rejected"
             /\ initErr \in {tasks[i].err : i \in {j \in DOMAIN tasks : tasks[j].pc = "rejected"}}
             /\ Running(browser))
  /\ [][(\E i \in DOMAIN tasks : tasks[i].pc = "rejected")
          => /\ server' = "closed" => server = "closed"
             /\ \A b \in DOMAIN browsers : browsers'[b] = "closed" => browsers[b] = "closed"]_vars

C4_Witness ==
  /\ \E i \in DOMAIN tasks : tasks[i].pc = "rejected" /\ tasks[i].err = "TimeoutError"
  /\ \E i \in DOMAIN tasks : InFlight(tasks[i])
  /\ initPc = "rejected"
  /\ server = "listening"

\* <outputDir>/<route>/index.html, as the operating system resolves it.
OutputFile(route) == Resolve(self.outputDir.s \o <<Slash>> \o route \o <<Slash, IndexHtml>>)

\* The files that are new or hold something else than before the run.
WrittenFiles ==
  {r \in DOMAIN fs : fs[r].kind = "file" /\ (r \notin DOMAIN fs0 \/ fs0[r] # fs[r])}

\* The markup the fulfilled tasks saving to r captured.
CapturedFor(r) ==
  {tasks[i].content : i \in {j \in DOMAIN tasks :
      tasks[j].pc = "fulfilled" /\ Resolve(tasks[j].target) = r}}

\* C5: when init() has returned, every configured route R has a regular
\* file at <outputDir>/<R>/index.html holding markup captured for R; with
\* the single route '/' and no waitForElement it holds the task's markup
\* and is the only file written.
C5_OutputFiles ==
  initPc = "returned" =>
    /\ \A i \in DOMAIN self.routes.a :
         /\ OutputFile(self.routes.a[i]) \in DOMAIN fs
         /\ fs[OutputFile(self.routes.a[i])].kind = "file"
         /\ fs[OutputFile(self.routes.a[i])].data \in CapturedFor(OutputFile(self.routes.a[i]))
         /\ fs[OutputFile(self.routes.a[i])].data.route = NormalizeRoute(self.routes.a[i])
    /\ (self.routes = Arr(<< <<Slash>> >>) /\ self.waitForElement = Null) =>
         /\ WrittenFiles = {Resolve(self.outputDir.s) \o << <<IndexHtml>> >>}
         /\ fs[Resolve(self.outputDir.s) \o << <<IndexHtml>> >>] = File(tasks[1].content)

C5_Witness ==
  /\ initPc = "returned"
  /\ self.routes = Arr(<< <<Slash>> >>)
  /\ self.waitForElement = Null
  /\ fs0 # fs

\* C6: with waitForElement set, a task is past the selector wait only with
\* the element in its page, the markup it saves holds the element, and every
\* file written holds it.
C6_CaptureAfterSelector ==
  (phase = "constructed" /\ self.waitForElement # Null) =>
    /\ \A i \in DOMAIN tasks :
         /\ tasks[i].pc \in {"content", "fulfilled"} => tasks[i].dom = "dynamic"
         /\ tasks[i].pc = "fulfilled" => tasks[i].content.rendered
    /\ \A r \in WrittenFiles : fs[r].data.rendered

C6_Witness ==
  /\ self.waitForElement = Selector
  /\ \E i \in DOMAIN tasks :
       /\ tasks[i].pc = "fulfilled"
       /\ fs[Resolve(tasks[i].target)] = File([route |-> tasks[i].route, rendered |-> TRUE])

\* C7: a task waiting for a selector that never appears leads to init()
\* being rejected.
C7_NeverAppearsRejects ==
  \A i \in TaskIds :
    (i \in DOMAIN tasks /\ tasks[i].pc = "waitSel" /\ tasks[i].dom = "stuck")
      ~> (initPc = "rejected")

\* C8: when the options fail validation, whichever rule fails, the
\* constructor has thrown and no port is resolved, no server exists and no
\* browser was launched, then and ever after.
C8_InvalidAcquiresNothing ==
  (phase # "new" /\ validate(Destructure(arg)) # NoError) =>
    /\ phase = "threw"
    /\ thrown = validate(Destructure(arg))
    /\ port = 0
    /\ server = "none"
    /\ browsers = <<>>
    /\ browser = 0
    /\ initPc = "idle"

C8_Witness ==
  /\ phase = "threw"
  /\ thrown = TypeError("stopOnPageError must be a boolean value.")
  /\ server = "none"

\* C9: when staticDir is not supplied or is null, the constructor throws the
\* Error 'staticDir must be explicitly set.', whatever the other options.
C9_MissingStaticDir ==
  (phase # "new" /\ arg.staticDir \in {Undef, Null}) =>
    /\ phase = "threw"
    /\ thrown = JsError("staticDir must be explicitly set.")

C9_Witness ==
  /\ phase = "threw"
  /\ arg.staticDir = Undef
  /\ arg.routes = NotAnArray
  /\ arg.useHttps = NotABoolean
  /\ thrown.type = "Error"

\* C10: when staticDir is a string that does not start with '/', the
\* constructor throws the Error 'staticDir must be an absolute path.',
\* whatever the other options.
C10_RelativeStaticDir ==
  (phase # "new" /\ arg.staticDir.t = "string" /\ ~StartsWithSlash(arg.staticDir.s)) =>
    /\ phase = "threw"
    /\ thrown = JsError("staticDir must be an absolute path.")

C10_Witness ==
  /\ phase = "threw"
  /\ arg.staticDir = RelDir
  /\ arg.routes = NotAnArray
  /\ arg.supressOutput = NotABoolean
  /\ thrown.type = "Error"

\* An option that was supplied (not left to its default) and is not of the
\* kind k.
Wrong(v, k) == v # Undef /\ v.t # k

\* C11: with an absolute staticDir, when routes is supplied and is no array
\* or a flag is supplied and is no boolean, the constructor throws a
\* TypeError naming the first such field in the order routes, useHttps,
\* supressOutput, stopOnPageError.
C11_TypeErrorNamesFirstField ==
  (/\ phase # "new"
   /\ IsAbsolute(arg.staticDir)
   /\ \/ Wrong(arg.routes, "array")
      \/ Wrong(arg.useHttps, "boolean")
      \/ Wrong(arg.supressOutput, "boolean")
      \/ Wrong(arg.stopOnPageError, "boolean")) =>
    /\ phase = "threw"
    /\ thrown.type = "TypeError"
    /\ thrown.message =
         IF Wrong(arg.routes, "array") THEN "routes must be an array."
         ELSE IF Wrong(arg.useHttps, "boolean") THEN "useHttps must be a boolean value."
         ELSE IF Wrong(arg.supressOutput, "boolean")
           THEN "supressOutput must be a boolean value."
         ELSE "stopOnPageError must be a boolean value."

C11_Witness ==
  /\ phase = "threw"
  /\ arg.staticDir = AbsDir
  /\ arg.routes = Undef
  /\ arg.useHttps = NotABoolean
  /\ arg.supressOutput = NotABoolean
  /\ arg.stopOnPageError = NotABoolean
  /\ thrown = TypeError("useHttps must be a boolean value.")

\* C12: new Prerenderer({staticDir: <absolute>, reportPageErrors:
\* 'notABoolean'}) throws the TypeError 'reportPageErrors must be a boolean
\* value.'.
C12_ReportPageErrorsChecked ==
  (/\ phase # "new"
   /\ arg = [NoArg EXCEPT !.staticDir = AbsDir, !.reportPageErrors = NotABoolean]) =>
    /\ phase = "threw"
    /\ thrown = TypeError("reportPageErrors must be a boolean value.")

\* A step in which the page of task i emits an error.
PageErrorStep(i) ==
  /\ i \in DOMAIN tasks
  /\ i \in DOMAIN tasks'
  /\ ~tasks[i].errored
  /\ tasks'[i].errored

\* A page error leaves the task where it was, awaiting the selector or about
\* to capture, and the pass and the process running.
TaskGoesOn(i) ==
  /\ tasks'[i].pc = tasks[i].pc
  /\ tasks'[i].err = tasks[i].err
  /\ initPc' = initPc
  /\ initErr' = initErr
  /\ ~crashed'

C14_BindFailurePropagates ==
  server = "failed" =>
    \/ phase = "threw"
    \/ initPc = "rejected" /\ initErr = "EADDRINUSE"

\* C15: saveFile(content, path) succeeds from every state of the filesystem,
\* leaving a regular file holding content at path, directories at its
\* missing parents, and every other entry as it was.
C15_SaveFileAlwaysSucceeds ==
  \A i \in DOMAIN tasks :
    tasks[i].pc = "content" =>
      LET saved == saveFile(fs, Markup(tasks[i]), tasks[i].target)
          file == Resolve(tasks[i].target)
      IN /\ saved.err = "none"
         /\ file \in DOMAIN saved.fs
         /\ saved.fs[file] = File(Markup(tasks[i]))
         /\ \A p \in DOMAIN saved.fs \ {file} :
              IF p \in DOMAIN fs THEN saved.fs[p] = fs[p]
              ELSE p \in Prefixes(file) /\ saved.fs[p] = Dir
         /\ DOMAIN fs \subseteq DOMAIN saved.fs

PageErrorLines == {"Error", "Page error"}

\* C18: a page error is written to the output only when the page-error flag
\* is true; with the flag at its default false nothing is written.
C18_ReportsOnlyWhenFlagTrue ==
  (\E l \in log : l.line \in PageErrorLines) =>
    \/ self.stopOnPageError = Bool(TRUE)
    \/ arg.reportPageErrors = Bool(TRUE)

\* C19: with stopOnPageError true, a page error rejects getMarkup(route)
\* with that error, so the route's task and init() are rejected.
C19_PageErrorRejects ==
  \A i \in DOMAIN tasks :
    (self.stopOnPageError = Bool(TRUE) /\ tasks[i].errored /\ ~crashed) =>
      /\ tasks[i].pc = "rejected"
      /\ initPc = "rejected"

\* The route and the output directory task i was started for.
RouteOf(i) == self.routes.a[i]
OutputDir == self.outputDir.s

\* C16: the task of route r navigates to and saves under R, which is r if
\* r starts with '/' and '/' followed by r otherwise; its target is T
\* followed by R and '/index.html', where T is outputDir without one
\* trailing '/'; and the target names the file <outputDir>/<route>/index.html.
C16_TargetPath ==
  \A i \in DOMAIN tasks :
    LET r == RouteOf(i)
        d == OutputDir
        R == tasks[i].route
        T == IF d # <<>> /\ d[Len(d)] = Slash THEN SubSeq(d, 1, Len(d) - 1) ELSE d
    IN /\ IF r # <<>> /\ r[1] = Slash THEN R = r ELSE R = <<Slash>> \o r
       /\ tasks[i].target = T \o R \o <<Slash, IndexHtml>>
       /\ tasks[i].pc # "newPage" => tasks[i].url.path = R
       /\ Resolve(tasks[i].target) = Resolve(d) \o Resolve(r) \o << <<IndexHtml>> >>

C16_Witness ==
  /\ self # Unset
  /\ OutputDir = <<"out", Slash>>
  /\ \E i \in DOMAIN tasks :
       /\ RouteOf(i) = <<"a">>
       /\ tasks[i].pc = "goto"
       /\ tasks[i].url.path = <<Slash, "a">>
       /\ tasks[i].target = <<"out", Slash, "a", Slash, IndexHtml>>

\* C17: the concurrent tasks of one init() have pairwise distinct target
\* paths, whatever the route list.
C17_DistinctTargets ==
  \A i, j \in DOMAIN tasks : i # j => tasks[i].target # tasks[j].target

\* C17, amended: two concurrent tasks of one init() write the same file
\* exactly when their routes name the same path once the leading '/' is
\* added and doubled or trailing slashes are dropped.
C17_DistinctTargetsForDistinctRoutes ==
  \A i, j \in DOMAIN tasks :
    i # j =>
      (Resolve(tasks[i].target) = Resolve(tasks[j].target))
        <=> (Resolve(RouteOf(i)) = Resolve(RouteOf(j)))

C17_Witness ==
  /\ self # Unset
  /\ Len(tasks) = 2
  /\ RouteOf(1) = <<Slash, "a">>
  /\ RouteOf(2) = <<"a", Slash, "b">>
  /\ Resolve(tasks[1].target) # Resolve(tasks[2].target)
  /\ \A i \in DOMAIN tasks : tasks[i].pc = "goto"

\* C20: every call of startBrowser(), the caller's or init()'s, launches a
\* new browser and replaces the handle; a pass closes only the browser
\* launched last, and a browser the caller launched before init() is never
\* closed.
C20_OnlyLatestBrowserClosed ==
  /\ Len(browsers) = launches + inits
  /\ browser = IF initPc = "launch" THEN Len(browsers) - 1 ELSE Len(browsers)
  /\ \A b \in DOMAIN browsers : b <= launches => browsers[b] = "running"
  /\ initPc \in {"destroy", "returned"} =>
       /\ browsers[Len(browsers)] = "closed"
       /\ \A b \in DOMAIN browsers :
            (b < Len(browsers) /\ browsers[b] = "closed") => b > launches

C20_Witness ==
  /\ initPc = "returned"
  /\ launches = 1
  /\ inits = 1
  /\ browser = 2
  /\ browsers = <<"running", "closed">>

\* The pass in progress, or the last one, was started after an earlier pass
\* on this instance had succeeded and closed its browser.
LaterPass == \E b \in 1..(Len(browsers) - 1) : browsers[b] = "closed"

\* C21: an instance has at most one successful pass. In an init() called
\* after one that succeeded the server is stopped, every navigation is
\* refused, and with a route to render that init() does not return true.
C21_OneSuccessfulPass ==
  LaterPass =>
    /\ server = "closed"
    /\ \A i \in DOMAIN tasks :
         \/ tasks[i].pc \in {"newPage", "goto"}
         \/ tasks[i].pc = "rejected" /\ tasks[i].err = "ERR_CONNECTION_REFUSED"
    /\ initPc \in {"closeBrowser", "destroy", "returned"} => tasks = <<>>

C21_Witness ==
  /\ LaterPass
  /\ inits = 2
  /\ Len(tasks) = 2
  /\ \A i \in DOMAIN tasks :
       tasks[i].pc = "rejected" /\ tasks[i].err = "ERR_CONNECTION_REFUSED"
  /\ initPc = "rejected"
  /\ initErr = "ERR_CONNECTION_REFUSED"

\* A step in which task i saves its file.
SaveStep(i) ==
  /\ i \in DOMAIN tasks
  /\ i \in DOMAIN tasks'
  /\ tasks[i].pc = "content"
  /\ tasks'[i].pc = "fulfilled"

\* C22: saveFile runs within one step of its task. The step that saves
\* leaves every other task where it was and the file holding the whole
\* markup of the saving task, whatever an earlier task wrote there; and the
\* filesystem changes in no step but the save of one task.
C22_SaveFileUninterrupted ==
  [][/\ \A i \in TaskIds :
          SaveStep(i) =>
            /\ Resolve(tasks[i].target) \in DOMAIN fs'
            /\ fs'[Resolve(tasks[i].target)] = File(Markup(tasks[i]))
            /\ tasks'[i].content = Markup(tasks[i])
            /\ \A j \in DOMAIN tasks \ {i} : tasks'[j] = tasks[j]
     /\ fs' # fs =>
          \E i \in TaskIds :
            /\ i \in DOMAIN tasks
            /\ tasks[i].pc = "content"
            /\ tasks'[i].pc \in {"fulfilled", "rejected"}]_vars

C22_Witness ==
  \E i, j \in DOMAIN tasks :
    /\ i # j
    /\ Resolve(tasks[i].target) = Resolve(tasks[j].target)
    /\ tasks[i].pc = "fulfilled"
    /\ tasks[j].pc = "fulfilled"
    /\ tasks[i].content # tasks[j].content
    /\ fs[Resolve(tasks[i].target)] = File(tasks[i].content)
====
